---- MODULE Spec2Model ----
(***************************************************************************)
(* The Google Analytics collector of src/index.ts (googleAnalytics):       *)
(* tracking entries are converted to hits, admitted under a replenishing   *)
(* slot budget, queued by the sendHitTask hook (enqueue) and transmitted   *)
(* in batches by createPayload under the `sending` auto-reset signal.      *)
(*                                                                         *)
(* A hit payload is modelled by its identity (the ordinal of the collect   *)
(* call that produced it) and its serialized length, String(hit).length.   *)
(* Every `await` of createPayload is a suspension point of the model.      *)
(***************************************************************************)
EXTENDS Integers, Sequences, FiniteSets, TLC

\* ---------------------------------------------------------------- constants

MAX_SLOTS == 20
MAX_HITS_PER_BATCH == 20
MAX_HIT_SIZE_KB == 8192
MAX_BATCH_SIZE_KB == 16384

\* Array(30).fill(event).forEach(collector)
RateBurst == 30

\* ------------------------------------------------------------------- bounds

\* entries the application offers in its one array turn,
\* entries.forEach(collector): more than the slot budget holds
BurstSize == 21
\* replenishment ticks counted by the history variable `ticks`
MaxTicks == 1
\* send invocations counted by the history variable `sendCalls`
MaxSends == 2

\* ------------------------------------------------------------------- values

\* JavaScript values: primitives carry their type, an object its own
\* properties (a function from property names to values)
undefined == [t |-> "undefined"]
null == [t |-> "null"]
str(s) == [t |-> "string", v |-> s]
num(n) == [t |-> "number", v |-> n]
bool(b) == [t |-> "boolean", v |-> b]
object(properties) == [t |-> "object", v |-> properties]
function == [t |-> "function"]

\* errors.FATAL of @paychex/core
FATAL == str("FATAL")

\* String(value)
String(value) ==
    IF value.t = "string" THEN value
    ELSE IF value.t = "number" THEN str(ToString(value.v))
    ELSE IF value.t = "boolean" THEN str(IF value.v THEN "true" ELSE "false")
    ELSE IF value.t = "object" THEN str("[object Object]")
    ELSE str(value.t)

\* the entries the application offers one per turn: the tracking entry (an
\* entry of unknown type stands for {}, null, a string, a number) and the
\* length of the payload the analytics SDK serializes for the entry (short,
\* exactly 8 KiB, one over 8 KiB)
SingleEntries ==
    {[t |-> "object", v |-> [type |-> str("event")], len |-> 1],
     [t |-> "object", v |-> [type |-> str("timer")], len |-> MAX_HIT_SIZE_KB],
     [t |-> "object", v |-> [type |-> str("error")], len |-> MAX_HIT_SIZE_KB + 1],
     [t |-> "object", v |-> [type |-> str("none")], len |-> 1]}
\* payload lengths of the events offered in an array turn (short, 4 KiB)
BurstLens == {1, 4096}
\* entries the application offers in a turn of valid and invalid entries
MixLen == 3
\* items of the arrays indexBySize is applied to on its own
MaxItems == 5
\* entries the application offers to the collector with a data pipeline
MaxCollects == 2
\* successful setDataPipeline calls counted by the history variable `proxied`
MaxPipelines == 1
\* failed sends counted by the history variable `console`
MaxErrors == 1
\* single collect calls whose entry is observed
MaxObserved == 1

Min(a, b) == IF a < b THEN a ELSE b

VARIABLES
    disposed,    \* let disposed
    scheduled,   \* let scheduled
    slots,       \* let slots
    queue,       \* const queue: Hit[]
    sending,     \* const sending = autoReset(true): signaled (the gate is
                 \* free), waiting (createPayload invocations blocked in
                 \* ready()), granted (invocations whose ready() resolved and
                 \* that have not resumed yet)
    timers,      \* pending setTimeout(createPayload) callbacks
    inflight,    \* batches handed to send() whose result has not settled
    deferred,    \* entries of pending setTimeout(collect, SLOT_INTERVAL, entry)
    offered,     \* history: number of entries offered to collect
    singles,     \* history: number of single-entry turns (the application makes
                 \* one, besides its array turn)
    burstDone,   \* history: the application has offered its array of entries
    admitted,    \* history: the hits collect handed to the analytics SDK
    ticks,       \* history: replenishment ticks fired (saturates at MaxTicks;
                 \* kept by the specifications that count ticks)
    sendCalls,   \* history: send() invocations (saturates at MaxSends)
    requeued,    \* history: failed batch put back and not yet extracted again
    delivered,   \* history: the hits of the sends that completed, in order of
                 \* completion (kept by the specifications that follow hits
                 \* end to end)
    call,        \* history: the call under observation, its arguments and, for
                 \* a pure function, its result (kept by the specifications
                 \* of single calls)
    \* the closure of the build with a data pipeline (src/rollup.config.js),
    \* which shares slots, the queue and the `sending` signal
    fetch,          \* let fetch
    createRequest,  \* let createRequest
    proxied,        \* history: calls of data.proxy.use
    pipeline,       \* const pipeline = manualReset(false)
    debounce,       \* const debounce = autoReset(true)
    machine,        \* const machine = start('init'): the action the state
                    \* machine is in and where that action stands
    console,        \* history: console.error calls
    debounceSets    \* history: debounce.set() calls of the debounce interval
                    \* and of flush (saturates at MaxTicks; kept by the
                    \* specifications that count them)

\* the closure state of the build with a data pipeline
reporter == <<fetch, createRequest, proxied, pipeline, debounce, machine, console,
              debounceSets>>

vars == <<disposed, scheduled, slots, queue, sending, timers,
          inflight, deferred, offered, singles, burstDone, admitted, ticks,
          sendCalls, requeued, delivered, call, reporter>>

\* ----------------------------------------------------------- pure functions

\* the value at a property path of lodash get(object, path), undefined when
\* a step of the path does not exist
RECURSIVE resolve(_, _)
resolve(value, path) ==
    IF path = <<>> THEN value
    ELSE IF value.t = "object" /\ Head(path) \in DOMAIN value.v
         THEN resolve(value.v[Head(path)], Tail(path))
         ELSE undefined

\* lodash get(object, path, defaultValue): the default replaces undefined
get(value, path, defaultValue) ==
    IF resolve(value, path) = undefined THEN defaultValue ELSE resolve(value, path)

\* the spelling of the property names a regular expression has to look into:
\* the word dimension as one piece, every other character a piece of its own
\* (a name without the word is one piece)
spelling ==
    [dimension |-> <<"dimension">>,
     dimension1 |-> <<"dimension", "1">>,
     dimension12 |-> <<"dimension", "1", "2">>,
     dimension1x |-> <<"dimension", "1", "x">>,
     xdimension1 |-> <<"x", "dimension", "1">>]

Spelling(key) == IF key \in DOMAIN spelling THEN spelling[key] ELSE <<key>>

\* \d
digit == {"0", "1", "2", "3", "4", "5", "6", "7", "8", "9"}

\* rx = /^dimension\d+$/, rx.test(key)
rx(key) ==
    /\ Len(Spelling(key)) >= 2
    /\ Spelling(key)[1] = "dimension"
    /\ \A i \in 2..Len(Spelling(key)) : Spelling(key)[i] \in digit

\* mutant: the value is copied as it is (map[key] = value)
onlyDimensionsVerbatim(data) ==
    IF data.t # "object" THEN <<>>
    ELSE [key \in {k \in DOMAIN data.v : rx(k)} |-> data.v[key]]

\* Object.entries(data).reduce(onlyDimensions, {}): a string, a number or a
\* missing data has no property that matches
onlyDimensions(data) ==
    IF data.t # "object" THEN <<>>
    ELSE [key \in {k \in DOMAIN data.v : rx(k)} |->
              IF data.v[key] \in {null, undefined} THEN null ELSE String(data.v[key])]

\* Object.assign(hit, dims)
withDimensions(hit, entry) ==
    onlyDimensions(get(entry, <<"data">>, object(<<>>))) @@ hit

asEvent(entry) ==
    IF get(entry, <<"type">>, undefined) = str("event")
    THEN withDimensions(
             [hitType |-> str("event"),
              eventAction |-> get(entry, <<"data", "action">>,
                                  get(entry, <<"label">>, undefined)),
              eventLabel |-> get(entry, <<"data", "label">>,
                                 get(entry, <<"data", "action">>, undefined)),
              eventCategory |-> get(entry, <<"data", "category">>, undefined),
              eventValue |-> get(entry, <<"data", "value">>,
                                 get(entry, <<"count">>, undefined))],
             entry)
    ELSE undefined

\* mutant: label and variable are not swapped
asTimerUnswapped(entry) ==
    IF get(entry, <<"type">>, undefined) = str("timer")
    THEN withDimensions(
             [hitType |-> str("timing"),
              timingValue |-> get(entry, <<"duration">>, undefined),
              timingCategory |-> get(entry, <<"data", "category">>, undefined),
              timingLabel |-> get(entry, <<"label">>, undefined),
              timingVar |-> get(entry, <<"data", "variable">>, undefined)],
             entry)
    ELSE undefined

asTimer(entry) ==
    IF get(entry, <<"type">>, undefined) = str("timer")
    THEN withDimensions(
             [hitType |-> str("timing"),
              timingValue |-> get(entry, <<"duration">>, undefined),
              timingCategory |-> get(entry, <<"data", "category">>, undefined),
              timingLabel |-> get(entry, <<"data", "variable">>, undefined),
              timingVar |-> get(entry, <<"label">>, undefined)],
             entry)
    ELSE undefined

\* mutant: whatever is neither an event nor a timer is reported as an error
asErrorAny(entry) ==
    withDimensions(
        [hitType |-> str("exception"),
         exDescription |-> get(entry, <<"label">>, undefined),
         exFatal |-> bool(get(entry, <<"data", "severity">>, undefined) = FATAL)],
        entry)

asError(entry) ==
    IF get(entry, <<"type">>, undefined) = str("error")
    THEN withDimensions(
             [hitType |-> str("exception"),
              exDescription |-> get(entry, <<"label">>, undefined),
              exFatal |-> bool(get(entry, <<"data", "severity">>, undefined) = FATAL)],
             entry)
    ELSE undefined

\* asEvent(entry) || asTimer(entry) || asError(entry): a hit is truthy
convertToHit(entry) ==
    IF asEvent(entry) # undefined THEN asEvent(entry)
    ELSE IF asTimer(entry) # undefined THEN asTimer(entry)
    ELSE asError(entry)

\* mutant: the 8 KiB ceiling excludes a hit of exactly 8192 characters
isValidHitExclusive(hit) == hit.len < MAX_HIT_SIZE_KB

isValidHit(hit) == hit.len <= MAX_HIT_SIZE_KB

\* mutant: the joining newlines are not counted
RECURSIVE indexLoopNoSeparator(_, _, _, _)
indexLoopNoSeparator(array, size, i, bytes) ==
    IF i >= Len(array) THEN i
    ELSE IF bytes + array[i + 1].len > size THEN i
    ELSE indexLoopNoSeparator(array, size, i + 1, bytes + array[i + 1].len)

\* mutant: a prefix that fills the size exactly is cut
RECURSIVE indexLoopStrict(_, _, _, _)
indexLoopStrict(array, size, i, bytes) ==
    IF i >= Len(array) THEN i
    ELSE IF bytes + array[i + 1].len + i >= size THEN i
    ELSE indexLoopStrict(array, size, i + 1, bytes + array[i + 1].len)

RECURSIVE indexLoop(_, _, _, _)
indexLoop(array, size, i, bytes) ==
    IF i >= Len(array) THEN i
    ELSE IF bytes + array[i + 1].len + i > size THEN i
    ELSE indexLoop(array, size, i + 1, bytes + array[i + 1].len)

indexBySize(array, size) == indexLoop(array, size, 0, 0)

RECURSIVE SumLen(_)
SumLen(s) == IF s = <<>> THEN 0 ELSE Head(s).len + SumLen(Tail(s))

\* the DataDefinition passed to send with every payload
operation ==
    [path |-> "batch",
     method |-> "POST",
     protocol |-> "https",
     host |-> "www.google-analytics.com",
     headers |-> ("content-type" :> "application/x-www-form-urlencoded"),
     ignore |-> [tracking |-> TRUE, traceability |-> TRUE]]

\* the separator of payload.join('\n'): one character
newline == [char |-> "\n", len |-> 1]

\* mutant: every hit is terminated by the separator
RECURSIVE joinTerminated(_, _)
joinTerminated(array, separator) ==
    IF array = <<>> THEN <<>>
    ELSE <<Head(array), separator>> \o joinTerminated(Tail(array), separator)

\* array.join(separator): the string as the sequence of its pieces, the
\* elements with the separator between consecutive ones
RECURSIVE join(_, _)
join(array, separator) ==
    IF array = <<>> THEN <<>>
    ELSE IF Len(array) = 1 THEN array
    ELSE <<Head(array), separator>> \o join(Tail(array), separator)

\* length of payload.join('\n')
JoinLen(payload) == IF payload = <<>> THEN 0 ELSE SumLen(payload) + Len(payload) - 1

\* mutant: a tick gives three slots
incrementThree(s) == Min(MAX_SLOTS, s + 3)

\* mutant: the replenishment is not capped
incrementUncapped(s) == s + 2

increment(s) == Min(MAX_SLOTS, s + 2)

\* queue.splice(0, Math.min(MAX_HITS_PER_BATCH, index)): the hits removed
\* (payload) and the hits left in the queue
\* mutant: the batch is cut by size only
BatchSizeUncapped(q) == indexBySize(q, MAX_BATCH_SIZE_KB)

BatchSize(q) == Min(MAX_HITS_PER_BATCH, indexBySize(q, MAX_BATCH_SIZE_KB))
Batch(q) == SubSeq(q, 1, BatchSize(q))
Rest(q) == SubSeq(q, BatchSize(q) + 1, Len(q))

\* the auto-reset signal of @paychex/core: ready() passes one caller when the
\* signal is set and resets it, else the caller queues up; set() releases one
\* queued caller, or leaves the signal set when nobody waits
autoReset(initial) == [signaled |-> initial, waiting |-> 0, granted |-> 0]

\* the manual-reset signal of @paychex/core: ready() passes every caller
\* while the signal is set, set() sets it and releases all who wait
manualReset(initial) == [signaled |-> initial]

ready(signal) ==
    IF signal.signaled
    THEN [signal EXCEPT !.signaled = FALSE, !.granted = @ + 1]
    ELSE [signal EXCEPT !.waiting = @ + 1]

set(signal) ==
    IF signal.waiting > 0
    THEN [signal EXCEPT !.waiting = @ - 1, !.granted = @ + 1]
    ELSE [signal EXCEPT !.signaled = TRUE]

\* mutant: the failed batch is put back in reverse
RECURSIVE UnshiftReversed(_, _)
UnshiftReversed(payload, q) ==
    IF payload = <<>> THEN q
    ELSE UnshiftReversed(Tail(payload), <<Head(payload)>> \o q)

\* mutant: the failed batch is pushed behind the queue
UnshiftBehind(payload, q) == q \o payload

\* queue.unshift(...payload)
Unshift(payload, q) == payload \o q

\* ------------------------------------------------------------------ actions

Init ==
    /\ disposed = FALSE
    /\ scheduled = FALSE
    /\ slots = MAX_SLOTS
    /\ queue = <<>>
    /\ sending = autoReset(TRUE)
    /\ timers = 0
    /\ inflight = <<>>
    /\ deferred = <<>>
    /\ offered = 0
    /\ singles = 0
    /\ burstDone = FALSE
    /\ admitted = {}
    /\ ticks = 0
    /\ sendCalls = 0
    /\ requeued = <<>>
    /\ delivered = <<>>
    /\ call = [fn |-> "none"]
    /\ fetch = undefined
    /\ createRequest = undefined
    /\ proxied = 0
    /\ pipeline = manualReset(FALSE)
    /\ debounce = autoReset(TRUE)
    /\ machine = [action |-> "none"]
    /\ console = 0
    /\ debounceSets = 0

\* lodash isFunction
isFunction(value) == value.t = "function"

\* error(message, fatal()) of @paychex/core
error(message, properties) == [message |-> message] @@ properties
fatal == [severity |-> FATAL]

\* mutant: the argument is checked after the collector has been set up
googleAnalyticsLateCheck(send) ==
    [threw |-> ~isFunction(send),
     created |-> {"queue", "sending", "token", "sendHitTask", "collect"},
     disposed |-> FALSE, scheduled |-> FALSE, slots |-> MAX_SLOTS,
     queue |-> <<>>, sending |-> autoReset(TRUE)]

\* googleAnalytics(send): the exception it throws or the closure it sets up
\* (created: the queue, the gate, the interval token, the sendHitTask hook
\* and the returned collect function)
googleAnalytics(send) ==
    IF ~isFunction(send)
    THEN [threw |-> TRUE,
          error |-> error("A send function must be provided.", fatal),
          created |-> {}]
    ELSE [threw |-> FALSE,
          created |-> {"queue", "sending", "token", "sendHitTask", "collect"},
          disposed |-> FALSE, scheduled |-> FALSE, slots |-> MAX_SLOTS,
          queue |-> <<>>, sending |-> autoReset(TRUE)]

\* the part of the collector a collect call reads and writes
Collector ==
    [slots |-> slots, queue |-> queue, scheduled |-> scheduled, timers |-> timers,
     deferred |-> deferred, admitted |-> admitted]

SetCollector(st) ==
    /\ slots' = st.slots
    /\ queue' = st.queue
    /\ scheduled' = st.scheduled
    /\ timers' = st.timers
    /\ deferred' = st.deferred
    /\ admitted' = st.admitted

\* mutant: every enqueue sets a timer of its own
scheduleSendAlways(st) == [st EXCEPT !.scheduled = TRUE, !.timers = @ + 1]

scheduleSend(st) ==
    IF st.scheduled THEN st
    ELSE [st EXCEPT !.scheduled = TRUE, !.timers = @ + 1]

\* mutant: an attempt is scheduled for a hit that is not queued
enqueueScheduleInvalid(st, hit) ==
    IF isValidHit(hit)
    THEN scheduleSend([st EXCEPT !.queue = Append(@, hit)])
    ELSE scheduleSend(st)

\* the sendHitTask hook; hit is data.get('hitPayload')
enqueue(st, hit) ==
    IF isValidHit(hit)
    THEN scheduleSend([st EXCEPT !.queue = Append(@, hit)])
    ELSE st

\* mutant: an entry is still admitted at slots = 0
collectAtZero(st, entry) ==
    IF disposed THEN st
    ELSE IF st.slots < 0 THEN [st EXCEPT !.deferred = Append(@, entry)]
    ELSE IF convertToHit(entry) = undefined THEN st
    ELSE enqueue([st EXCEPT !.slots = @ - 1,
                            !.admitted = @ \cup {[id |-> entry.id, len |-> entry.len]}],
                 [id |-> entry.id, len |-> entry.len])

\* mutant: collect does not look at the disposed flag
collectWhenDisposed(st, entry) ==
    IF st.slots < 1 THEN [st EXCEPT !.deferred = Append(@, entry)]
    ELSE IF convertToHit(entry) = undefined THEN st
    ELSE enqueue([st EXCEPT !.slots = @ - 1,
                            !.admitted = @ \cup {[id |-> entry.id, len |-> entry.len]}],
                 [id |-> entry.id, len |-> entry.len])

\* mutant: the slot is taken only for a hit that is queued
collectChargesQueued(st, entry) ==
    IF disposed THEN st
    ELSE IF st.slots < 1 THEN [st EXCEPT !.deferred = Append(@, entry)]
    ELSE IF convertToHit(entry) = undefined THEN st
    ELSE enqueue([st EXCEPT !.slots = IF isValidHit(entry) THEN @ - 1 ELSE @,
                            !.admitted = @ \cup {[id |-> entry.id, len |-> entry.len]}],
                 [id |-> entry.id, len |-> entry.len])

\* the SDK stub answers ga('send', hit) by calling the sendHitTask hook
\* synchronously with the payload it serializes for the entry
collect(st, entry) ==
    IF disposed THEN st
    ELSE IF st.slots < 1 THEN [st EXCEPT !.deferred = Append(@, entry)]
    ELSE IF convertToHit(entry) = undefined THEN st
    ELSE enqueue([st EXCEPT !.slots = @ - 1,
                            !.admitted = @ \cup {[id |-> entry.id, len |-> entry.len]}],
                 [id |-> entry.id, len |-> entry.len])

\* entries.forEach(collect)
RECURSIVE collectAll(_, _)
collectAll(st, entries) ==
    IF entries = <<>> THEN st
    ELSE collectAll(collect(st, Head(entries)), Tail(entries))

\* setInterval(increment, SLOT_INTERVAL), until clearInterval(token); count
\* is the history of ticks after the step
Ticks(count) ==
    /\ ~disposed
    /\ slots' = increment(slots)
    /\ ticks' = count
    /\ UNCHANGED <<disposed, scheduled, queue, sending, timers,
                   inflight, deferred, offered, singles, burstDone, admitted,
                   sendCalls, requeued,
                   delivered, call, reporter>>

Tick == Ticks(ticks)

\* as Tick, keeping the history of ticks
TickCounted == Ticks(Min(ticks + 1, MaxTicks))

\* the application calls collect(entry) once in a turn
Collect ==
    /\ singles = 0
    /\ singles' = singles + 1
    /\ offered' = offered + 1
    /\ \E e \in SingleEntries :
          SetCollector(collect(Collector,
                               [id |-> offered + 1, t |-> e.t, v |-> e.v, len |-> e.len]))
    /\ UNCHANGED <<disposed, sending, inflight, burstDone, ticks,
                   sendCalls, requeued,
                   delivered, call, reporter>>

\* n events whose payloads have length len
BurstEntries(n, len) ==
    [i \in 1..n |-> [id |-> offered + i, t |-> "object",
                     v |-> [type |-> str("event")], len |-> len]]

\* the application offers n events in one synchronous turn
CollectArray(n, len) ==
    /\ ~burstDone
    /\ burstDone' = TRUE
    /\ offered' = offered + n
    /\ SetCollector(collectAll(Collector, BurstEntries(n, len)))
    /\ UNCHANGED <<disposed, sending, inflight, singles, ticks,
                   sendCalls, requeued,
                   delivered, call, reporter>>

CollectBurst == \E len \in BurstLens : CollectArray(BurstSize, len)

\* mutant: an entry whose retry finds no slot is not deferred again
RetryCollectOnce ==
    /\ deferred # <<>>
    /\ SetCollector(IF slots < 1
                    THEN [Collector EXCEPT !.deferred = Tail(@)]
                    ELSE collect([Collector EXCEPT !.deferred = Tail(@)],
                                 Head(deferred)))
    /\ UNCHANGED <<disposed, sending, inflight, offered, singles, burstDone, ticks,
                   sendCalls, requeued,
                   delivered, call, reporter>>

\* mutant: the retry does not look at the disposed flag
RetryCollectDisposed ==
    /\ deferred # <<>>
    /\ SetCollector(collectWhenDisposed([Collector EXCEPT !.deferred = Tail(@)],
                                        Head(deferred)))
    /\ UNCHANGED <<disposed, sending, inflight, offered, singles,
                   burstDone, ticks, sendCalls, requeued,
                   delivered, call, reporter>>

\* a setTimeout(collect, SLOT_INTERVAL, entry) callback fires; timers of equal
\* delay fire in the order they were set
RetryCollect ==
    /\ deferred # <<>>
    /\ SetCollector(collect([Collector EXCEPT !.deferred = Tail(@)], Head(deferred)))
    /\ UNCHANGED <<disposed, sending, inflight, offered, singles,
                   burstDone, ticks, sendCalls, requeued,
                   delivered, call, reporter>>

\* mutant: a second call clears the flag again
DisposeToggle ==
    /\ disposed' = ~disposed
    /\ UNCHANGED <<scheduled, slots, queue, sending, timers,
                   inflight, deferred, offered, singles, burstDone, admitted, ticks,
                   sendCalls, requeued, delivered, call, reporter>>

\* dispose(): disposed = true; clearInterval(token), which disables Tick;
\* observed is the history of the call under observation after the step
Disposes(observed) ==
    /\ disposed' = TRUE
    /\ call' = observed
    /\ UNCHANGED <<scheduled, slots, queue, sending, timers,
                   inflight, deferred, offered, singles, burstDone, admitted, ticks,
                   sendCalls, requeued,
                   delivered, reporter>>

Dispose == Disposes(call)

\* as Dispose, keeping what was pending at the first call: the sends in
\* flight, the send timers and the collect retries
DisposeObserved ==
    Disposes(IF call.fn = "dispose" THEN call
             ELSE [fn |-> "dispose", inflight |-> inflight, timers |-> timers,
                   deferred |-> deferred])

\* mutant: createPayload does not wait for the gate
CreatePayloadStartNoGate ==
    /\ timers > 0
    /\ timers' = timers - 1
    /\ sending' = [sending EXCEPT !.granted = @ + 1]
    /\ UNCHANGED <<disposed, scheduled, slots, queue, inflight, deferred, offered,
                   singles, burstDone, admitted, ticks, sendCalls, requeued,
                   delivered, call, reporter>>

\* mutant: the scheduled flag is cleared when the timer fires, before the gate
CreatePayloadStartResets ==
    /\ timers > 0
    /\ timers' = timers - 1
    /\ sending' = ready(sending)
    /\ scheduled' = FALSE
    /\ UNCHANGED <<disposed, slots, queue, inflight, deferred, offered,
                   singles, burstDone, admitted, ticks, sendCalls, requeued,
                   delivered, call, reporter>>

\* the setTimeout(createPayload) callback fires: createPayload runs up to
\* `await sending.ready()`
CreatePayloadStart ==
    /\ timers > 0
    /\ timers' = timers - 1
    /\ sending' = ready(sending)
    /\ UNCHANGED <<disposed, scheduled, slots, queue, inflight, deferred, offered,
                   singles, burstDone, admitted, ticks, sendCalls, requeued,
                   delivered, call, reporter>>

\* createPayload resumes after `await sending.ready()`: batch extraction and
\* the call of send, which returns a value that createPayload awaits;
\* observed is the history of the call under observation after the step
CreatePayloadSends(observed) ==
    /\ sending.granted > 0
    /\ sending' = [sending EXCEPT !.granted = @ - 1]
    /\ scheduled' = FALSE
    /\ sendCalls' = Min(sendCalls + 1, MaxSends)
    /\ inflight' = Append(inflight, Batch(queue))
    /\ queue' = Rest(queue)
    /\ requeued' = <<>>
    /\ UNCHANGED <<disposed, slots, timers, deferred, offered, singles, burstDone,
                   admitted, ticks,
                   delivered, reporter>>
    /\ call' = observed

CreatePayloadSend == CreatePayloadSends(call)

\* as CreatePayloadSend, keeping the arguments of the send call
CreatePayloadSendObserved ==
    CreatePayloadSends([fn |-> "send",
                        arg |-> <<join(Batch(queue), newline), operation>>])


\* as CreatePayloadSend, but send throws synchronously: catch and finally run
\* in the same turn, so the batch is extracted, put back and the gate released
CreatePayloadThrow ==
    /\ sending.granted > 0
    /\ sending' = set([sending EXCEPT !.granted = @ - 1])
    /\ scheduled' = FALSE
    /\ sendCalls' = Min(sendCalls + 1, MaxSends)
    /\ queue' = Unshift(Batch(queue), Rest(queue))
    /\ requeued' = Batch(queue)
    /\ UNCHANGED <<disposed, slots, timers, inflight, deferred, offered, singles,
                   burstDone, admitted, ticks,
                   delivered, call, reporter>>

\* the awaited result of send fulfils: finally { sending.set() }; log is the
\* history of completed sends after the step
SendResolves(log) ==
    /\ inflight # <<>>
    /\ inflight' = Tail(inflight)
    /\ sending' = set(sending)
    /\ delivered' = log
    /\ UNCHANGED <<disposed, scheduled, slots, queue, timers, deferred, offered,
                   singles, burstDone, admitted, ticks, sendCalls, requeued,
                   call, reporter>>

SendResolve == SendResolves(delivered)

\* as SendResolve, keeping the history of completed sends
SendResolveLogged == SendResolves(delivered \o Head(inflight))

\* mutant: the batch of a failed send is not put back
SendRejectDropped ==
    /\ inflight # <<>>
    /\ inflight' = Tail(inflight)
    /\ requeued' = Head(inflight)
    /\ sending' = set(sending)
    /\ UNCHANGED <<disposed, scheduled, slots, queue, timers, deferred, offered,
                   singles, burstDone, admitted, ticks, sendCalls,
                   delivered, call, reporter>>

\* mutant: the gate is released on success only
SendRejectNoRelease ==
    /\ inflight # <<>>
    /\ inflight' = Tail(inflight)
    /\ queue' = Unshift(Head(inflight), queue)
    /\ requeued' = Head(inflight)
    /\ UNCHANGED <<disposed, scheduled, slots, sending, timers, deferred, offered,
                   singles, burstDone, admitted, ticks, sendCalls,
                   delivered, call, reporter>>

\* mutant: the continuation of a failed send gives up on a disposed collector
SendRejectUnlessDisposed ==
    /\ inflight # <<>>
    /\ inflight' = Tail(inflight)
    /\ queue' = IF disposed THEN queue ELSE Unshift(Head(inflight), queue)
    /\ requeued' = IF disposed THEN <<>> ELSE Head(inflight)
    /\ sending' = set(sending)
    /\ UNCHANGED <<disposed, scheduled, slots, timers, deferred, offered, singles,
                   burstDone, admitted, ticks, sendCalls,
                   delivered, call, reporter>>

\* the awaited result of send rejects: catch { queue.unshift(...payload) }
\* finally { sending.set() }
SendReject ==
    /\ inflight # <<>>
    /\ inflight' = Tail(inflight)
    /\ queue' = Unshift(Head(inflight), queue)
    /\ requeued' = Head(inflight)
    /\ sending' = set(sending)
    /\ UNCHANGED <<disposed, scheduled, slots, timers, deferred, offered, singles,
                   burstDone, admitted, ticks, sendCalls,
                   delivered, call, reporter>>

Next ==
    \/ Tick
    \/ Collect
    \/ CollectBurst
    \/ RetryCollect
    \/ Dispose
    \/ CreatePayloadStart
    \/ CreatePayloadSend
    \/ CreatePayloadThrow
    \/ SendResolve
    \/ SendReject

Spec == Init /\ [][Next]_vars

\* The rate limiter on its own (createPayload and the settlement of send
\* leave disposed, slots, deferred and admitted alone), with the timers of the
\* collector firing: the replenishment interval while it is not cleared, and
\* every pending collect retry.
NextRate ==
    \/ Tick
    \/ Collect
    \/ CollectBurst
    \/ RetryCollect
    \/ Dispose

FairSpec == Init /\ [][NextRate]_vars /\ WF_vars(Tick) /\ WF_vars(RetryCollect)

\* The rate-limiting scenario of the tests: the application's first act is to
\* offer RateBurst short events in one turn; the scenario is followed up to the
\* settlement of the first send.
CollectRateBurst == CollectArray(RateBurst, 1)

NextBurst ==
    \/ CollectRateBurst
    \/ (burstDone /\ TickCounted)
    \/ RetryCollect
    \/ (sendCalls = 0 /\ CreatePayloadStart)
    \/ CreatePayloadSend
    \/ SendResolve
    \/ SendReject

SpecBurst == Init /\ [][NextBurst]_vars

\* The round trip of the tests: the application offers up to MAX_SLOTS events
\* in one turn, so that the rate limiter defers none, and every send succeeds.
CollectValid == \E n \in 1..MAX_SLOTS, len \in BurstLens : CollectArray(n, len)

NextRound ==
    \/ CollectValid
    \/ CreatePayloadStart
    \/ CreatePayloadSend
    \/ SendResolveLogged

SpecRound == Init /\ [][NextRound]_vars

\* The collector with a transport that never fails, every timer firing and
\* every send settling.
NextSend ==
    \/ Tick
    \/ Collect
    \/ CollectBurst
    \/ RetryCollect
    \/ CreatePayloadStart
    \/ CreatePayloadSend
    \/ SendResolve

FairSend ==
    /\ Init /\ [][NextSend]_vars
    /\ WF_vars(Tick) /\ WF_vars(RetryCollect)
    /\ WF_vars(CreatePayloadStart) /\ WF_vars(CreatePayloadSend)
    /\ WF_vars(SendResolve)

\* The construction of the collector: the application calls googleAnalytics
\* with some value for send and, when a collector comes back, uses it.
SendArguments == {function, undefined, null, str("send"), num(1), object(<<>>)}

Construct ==
    /\ call.fn = "none"
    /\ \E send \in SendArguments :
          /\ call' = [fn |-> "googleAnalytics", arg |-> send,
                      result |-> googleAnalytics(send)]
          /\ IF googleAnalytics(send).threw
             THEN UNCHANGED <<disposed, scheduled, slots, queue, sending>>
             ELSE /\ disposed' = googleAnalytics(send).disposed
                  /\ scheduled' = googleAnalytics(send).scheduled
                  /\ slots' = googleAnalytics(send).slots
                  /\ queue' = googleAnalytics(send).queue
                  /\ sending' = googleAnalytics(send).sending
    /\ UNCHANGED <<timers, inflight, deferred, offered, singles, burstDone,
                   admitted, ticks, sendCalls, requeued, delivered, reporter>>

\* googleAnalytics returned a collector
Constructed == call.fn = "googleAnalytics" /\ "collect" \in call.result.created

NextSetup ==
    \/ Construct
    \/ (Constructed /\ Tick)
    \/ (Constructed /\ Collect)
    \/ (Constructed /\ CollectBurst)
    \/ (Constructed /\ RetryCollect)
    \/ (Constructed /\ Dispose)
    \/ (Constructed /\ CreatePayloadStart)
    \/ (Constructed /\ CreatePayloadSend)
    \/ (Constructed /\ SendResolve)

SpecSetup == Init /\ [][NextSetup]_vars

\* The turn of the test 'ignores invalid TrackingInfo items': the application
\* offers MixLen entries, each a valid one ({type: 'event'}, 'timer', 'error')
\* or an invalid one (nothing, null, 'abc', 123, {}, an unknown type), in one
\* turn; the SDK stub serializes a short payload.
MixedEntries ==
    {object([type |-> str("event")]), object([type |-> str("timer")]),
     object([type |-> str("error")]),
     undefined, null, str("abc"), num(123), object(<<>>),
     object([type |-> str("page")])}

CollectMixed ==
    /\ ~burstDone
    /\ burstDone' = TRUE
    /\ offered' = offered + MixLen
    /\ \E entries \in [1..MixLen -> MixedEntries] :
          /\ call' = [fn |-> "collect", arg |-> entries]
          /\ SetCollector(collectAll(Collector,
                 [i \in 1..MixLen |-> entries[i] @@ [id |-> offered + i, len |-> 1]]))
    /\ UNCHANGED <<disposed, sending, inflight, singles, ticks,
                   sendCalls, requeued, delivered, reporter>>

NextMixed ==
    \/ CollectMixed
    \/ CreatePayloadStart
    \/ CreatePayloadSend
    \/ SendResolveLogged

SpecMixed == Init /\ [][NextMixed]_vars

\* The conversion on its own: convertToHit applied to tracking entries with
\* every combination of present and absent properties.
absent == [t |-> "absent"]

\* the object with the properties that are not absent
Present(properties) ==
    object([key \in {k \in DOMAIN properties : properties[k] # absent} |->
                properties[key]])

DataObjects ==
    {Present(properties) : properties \in
        [action : {absent, str("A")},
         label : {absent, str("DL")},
         category : {absent, str("C")},
         value : {absent, num(5)},
         variable : {absent, str("V")},
         severity : {absent, FATAL, str("ERROR")},
         dimension12 : {absent, undefined, str("x"), num(7)},
         mode : {absent, str("employee")}]}

TrackingInfos ==
    {Present(properties) : properties \in
        [type : {absent, str("event"), str("timer"), str("error"), str("page")},
         label : {absent, str("L")},
         count : {absent, num(1)},
         duration : {absent, num(200)},
         data : {absent} \cup DataObjects]}
    \cup {undefined, null, str("abc"), num(123)}

ConvertToHit ==
    /\ call.fn = "none"
    /\ \E entry \in TrackingInfos :
          call' = [fn |-> "convertToHit", arg |-> entry, result |-> convertToHit(entry)]
    /\ UNCHANGED <<disposed, scheduled, slots, queue, sending, timers, inflight,
                   deferred, offered, singles, burstDone, admitted, ticks,
                   sendCalls, requeued, delivered, reporter>>

NextConvert == ConvertToHit

SpecConvert == Init /\ [][NextConvert]_vars

\* The custom dimensions on their own: convertToHit applied to entries whose
\* data has properties named like a dimension or nearly so, with values of
\* every kind.
DimensionData ==
    {Present(properties) : properties \in
        [dimension12 : {absent, undefined, null, str("x"), num(7), bool(TRUE)},
         dimension1 : {absent, str("y")},
         dimension : {absent, str("d")},
         dimension1x : {absent, str("z")},
         xdimension1 : {absent, str("w")},
         key : {absent, str("value")}]}

DimensionInfos ==
    {Present(properties) : properties \in
        [type : {str("event"), str("timer"), str("error"), str("page")},
         label : {absent, str("L")},
         data : {absent, str("abc")} \cup DimensionData]}

ConvertDimensions ==
    /\ call.fn = "none"
    /\ \E entry \in DimensionInfos :
          call' = [fn |-> "convertToHit", arg |-> entry, result |-> convertToHit(entry)]
    /\ UNCHANGED <<disposed, scheduled, slots, queue, sending, timers, inflight,
                   deferred, offered, singles, burstDone, admitted, ticks,
                   sendCalls, requeued, delivered, reporter>>

NextDimensions == ConvertDimensions

SpecDimensions == Init /\ [][NextDimensions]_vars

\* The collector that is disposed at some point: an array of events is offered
\* before or after, sends succeed or fail, and what was pending at the first
\* dispose call is kept.
NextDispose ==
    \/ CollectBurst
    \/ TickCounted
    \/ RetryCollect
    \/ DisposeObserved
    \/ CreatePayloadStart
    \/ CreatePayloadSend
    \/ SendResolve
    \/ SendReject

SpecDispose == Init /\ [][NextDispose]_vars

\* The size scan on its own: indexBySize applied to arrays of up to MaxItems
\* items (empty, short, 4 KiB, 8 KiB, longer than a batch) and size limits
\* (nothing, a few characters, the limit of a batch).
IndexLens == {0, 1, 4096, MAX_HIT_SIZE_KB, MAX_BATCH_SIZE_KB + 1}
IndexSizes == {0, 2, 3, MAX_HIT_SIZE_KB + 1, MAX_BATCH_SIZE_KB}

IndexArrays ==
    UNION {[1..n -> IndexLens] : n \in 0..MaxItems}

\* the call and the array as the call leaves it: indexBySize only reads
\* array.length and array[i]
IndexBySize ==
    /\ call.fn = "none"
    /\ \E lens \in IndexArrays, size \in IndexSizes :
          LET array == [i \in 1..Len(lens) |-> [id |-> i, len |-> lens[i]]] IN
          call' = [fn |-> "indexBySize", arg |-> <<array, size>>,
                   result |-> indexBySize(array, size), array |-> array]
    /\ UNCHANGED <<disposed, scheduled, slots, queue, sending, timers, inflight,
                   deferred, offered, singles, burstDone, admitted, ticks,
                   sendCalls, requeued, delivered, reporter>>

NextIndex == IndexBySize

SpecIndex == Init /\ [][NextIndex]_vars

\* The collector with the arguments of its send calls observed: an array of
\* events and a single entry are offered, sends succeed or fail.
NextObserved ==
    \/ CollectValid
    \/ Collect
    \/ CreatePayloadStart
    \/ CreatePayloadSendObserved
    \/ SendResolve
    \/ SendReject

SpecObserved == Init /\ [][NextObserved]_vars

\* The collector with every hit followed end to end: an array of events and a
\* single entry are offered, sends throw, reject or resolve, the collector is
\* disposed at any time, and the hits of the sends that completed are kept.
NextConserve ==
    \/ Tick
    \/ Collect
    \/ CollectBurst
    \/ RetryCollect
    \/ Dispose
    \/ CreatePayloadStart
    \/ CreatePayloadSend
    \/ CreatePayloadThrow
    \/ SendResolveLogged
    \/ SendReject

SpecConserve == Init /\ [][NextConserve]_vars

\* The slot budget on its own, with the entry of every collect call observed:
\* besides its array of events the application offers, one per turn, entries
\* that convert to a hit (an event, an error), whose payload is short or
\* oversized, and entries that do not (null, a string, an unknown type),
\* before or after dispose, with slots left or not.
ObservedEntries ==
    {e @@ [len |-> len] :
        e \in {object([type |-> str("event")]), object([type |-> str("error")])},
        len \in {1, MAX_HIT_SIZE_KB + 1}}
    \cup {e @@ [len |-> 1] : e \in {null, str("abc"), object([type |-> str("page")])}}

CollectObserved ==
    /\ singles < MaxObserved
    /\ singles' = singles + 1
    /\ offered' = offered + 1
    /\ \E e \in ObservedEntries :
          /\ call' = [fn |-> "collect", arg |-> e @@ [id |-> offered + 1]]
          /\ SetCollector(collect(Collector, e @@ [id |-> offered + 1]))
    /\ UNCHANGED <<disposed, sending, inflight, burstDone, ticks,
                   sendCalls, requeued, delivered, reporter>>

NextSlots ==
    \/ CollectObserved
    \/ CollectBurst
    \/ Tick
    \/ RetryCollect
    \/ Dispose

SpecSlots == Init /\ [][NextSlots]_vars

\* The rate limiter with its ticks counted and capped: RateBurst events are
\* offered in one turn and a single entry in another, at most MaxTicks
\* replenishment ticks fire, the collector may be disposed.
TickLimited == ticks < MaxTicks /\ TickCounted

NextAdmit ==
    \/ CollectRateBurst
    \/ Collect
    \/ TickLimited
    \/ RetryCollect
    \/ Dispose

SpecAdmit == Init /\ [][NextAdmit]_vars

\* ------------------------------------------ the build with a data pipeline
\* googleAnalytics(ga, {DEBOUNCE_MS, SLOT_INTERVAL_MS}) of src/rollup.config.js:
\* a state machine (init, wait, batch, send) of @paychex/core drives the
\* sends; wait passes three signals in turn, the pipeline signal that
\* setDataPipeline sets, the `sending` gate and the debounce signal. An action
\* of the machine runs to its end before the next one is chosen, and
\* machine.update(state) takes a transition only when the action the machine
\* is in has completed.

\* the variables of the send build that this build has no use for
sendOnly == <<disposed, scheduled, timers, singles, burstDone, ticks, requeued,
              delivered>>

\* kb(num): num << 10, as a number of characters
kb(n) == n * 1024

\* isValidHit, applied to the entry by collect: the entry is not empty and
\* JSON.stringify(entry).length < kb(MAX_HIT_SIZE_KB), MAX_HIT_SIZE_KB = 8
isValidEntry(entry) == entry.len < kb(8)

\* indexBySize: bytes += JSON.stringify(array[i]).length + 2; a hit's len is
\* the length of its JSON here
RECURSIVE indexByBytes(_, _, _, _)
indexByBytes(array, size, i, bytes) ==
    IF i >= Len(array) THEN i
    ELSE IF bytes + array[i + 1].len + 2 > size THEN i
    ELSE indexByBytes(array, size, i + 1, bytes + array[i + 1].len + 2)

\* batch: firstIndex = Math.min(MAX_HITS_PER_BATCH, indexBySize(queue,
\* kb(MAX_BATCH_SIZE_KB))), MAX_BATCH_SIZE_KB = 16
firstIndex(q) == Min(MAX_HITS_PER_BATCH, indexByBytes(q, kb(16), 0, 0))

hasEntries(q) == q # <<>>

\* where the machine stands: blocked in wait on a signal, done with wait and
\* without a transition to take, about to run batch, or in send awaiting fetch
Waiting(signal) == [action |-> "wait", at |-> signal]
Idle == [action |-> "wait", at |-> "completed"]
Batching == [action |-> "batch", at |-> "start"]
Fetching == [action |-> "send", at |-> "fetch"]

\* transitions: ['wait', 'batch', hasEntries], taken when wait completes
afterWait(q, s, d) ==
    [machine |-> IF hasEntries(q) THEN Batching ELSE Idle,
     sending |-> s, debounce |-> d]

\* mutant: wait does not look at the debounce signal
awaitDebounceSkipped(q, s, d) == afterWait(q, s, d)

\* wait from `await debounce.ready()` on
awaitDebounce(q, s, d) ==
    IF ready(d).granted > 0
    THEN afterWait(q, s, [ready(d) EXCEPT !.granted = @ - 1])
    ELSE [machine |-> Waiting("debounce"), sending |-> s, debounce |-> ready(d)]

\* wait from `await sending.ready()` on
awaitSending(q, s, d) ==
    IF ready(s).granted > 0
    THEN awaitDebounce(q, [ready(s) EXCEPT !.granted = @ - 1], d)
    ELSE [machine |-> Waiting("sending"), sending |-> ready(s), debounce |-> d]

\* mutant: wait does not look at the pipeline signal
waitUnpaused(q, p, s, d) == awaitSending(q, s, d)

\* the action wait, as far as it gets in one turn: the machine, the gate and
\* the debounce signal it leaves
wait(q, p, s, d) ==
    IF p.signaled THEN awaitSending(q, s, d)
    ELSE [machine |-> Waiting("pipeline"), sending |-> s, debounce |-> d]

\* machine.update(state): the transition out of a completed wait
update(m, q) == IF m = Idle /\ hasEntries(q) THEN Batching ELSE m

\* the state after googleAnalytics(ga): init has set the two intervals and
\* wait is blocked on the pipeline signal
InitPipeline ==
    /\ disposed = FALSE
    /\ scheduled = FALSE
    /\ slots = 20
    /\ queue = <<>>
    /\ sending = autoReset(TRUE)
    /\ timers = 0
    /\ inflight = <<>>
    /\ deferred = <<>>
    /\ offered = 0
    /\ singles = 0
    /\ burstDone = FALSE
    /\ admitted = {}
    /\ ticks = 0
    /\ sendCalls = 0
    /\ requeued = <<>>
    /\ delivered = <<>>
    /\ call = [fn |-> "none"]
    /\ fetch = undefined
    /\ createRequest = undefined
    /\ proxied = 0
    /\ pipeline = manualReset(FALSE)
    /\ debounce = autoReset(TRUE)
    /\ machine = wait(<<>>, manualReset(FALSE), autoReset(TRUE), autoReset(TRUE)).machine
    /\ console = 0
    /\ debounceSets = 0

\* conformsTo(data, DATA_SCHEMA)
conformsTo(data) ==
    /\ isFunction(resolve(data, <<"fetch">>))
    /\ isFunction(resolve(data, <<"createRequest">>))
    /\ isFunction(resolve(data, <<"proxy", "use">>))

\* mutant: the values are stored before the data is checked
setDataPipelineLateCheck(data) ==
    [threw |-> ~conformsTo(data),
     error |-> error("Please specify an object with fetch, proxy, and createRequest properties.",
                     fatal),
     fetch |-> resolve(data, <<"fetch">>),
     createRequest |-> resolve(data, <<"createRequest">>),
     proxied |-> proxied,
     pipeline |-> pipeline]

\* collect.setDataPipeline(data): the exception it throws, or the values it
\* stores, the call of data.proxy.use and pipeline.set()
setDataPipeline(data) ==
    IF ~conformsTo(data)
    THEN [threw |-> TRUE,
          error |-> error("Please specify an object with fetch, proxy, and createRequest properties.",
                          fatal),
          fetch |-> fetch, createRequest |-> createRequest,
          proxied |-> proxied, pipeline |-> pipeline]
    ELSE [threw |-> FALSE,
          fetch |-> resolve(data, <<"fetch">>),
          createRequest |-> resolve(data, <<"createRequest">>),
          proxied |-> proxied + 1,
          pipeline |-> [pipeline EXCEPT !.signaled = TRUE]]

\* the arguments the application calls setDataPipeline with
PipelineData ==
    {undefined} \cup
    {Present(properties) : properties \in
        [fetch : {function, undefined},
         createRequest : {function, absent},
         proxy : {absent, object(<<>>), object([use |-> function]),
                  object([use |-> str("use")])}]}

\* observe: the call becomes the call under observation, with the closure
\* before it
SetDataPipelines(observe) ==
    /\ \E data \in PipelineData :
          /\ setDataPipeline(data).proxied <= MaxPipelines
          /\ fetch' = setDataPipeline(data).fetch
          /\ createRequest' = setDataPipeline(data).createRequest
          /\ proxied' = setDataPipeline(data).proxied
          /\ pipeline' = setDataPipeline(data).pipeline
          /\ call' = IF observe
                     THEN [fn |-> "setDataPipeline", arg |-> data,
                           result |-> setDataPipeline(data),
                           before |-> [fetch |-> fetch, createRequest |-> createRequest,
                                       proxied |-> proxied, pipeline |-> pipeline]]
                     ELSE call
    /\ UNCHANGED <<slots, queue, sending, inflight, deferred, offered, admitted,
                   sendCalls, debounce, machine, console, debounceSets, sendOnly>>

SetDataPipeline == SetDataPipelines(FALSE)

SetDataPipelineObserved == SetDataPipelines(TRUE)

\* slot(entry), with the SDK stub that answers ga('send', hit) by calling the
\* sendHitTask hook: state.queue.push(hit); machine.update(state)
slot(st, entry) ==
    IF st.slots = 0 THEN [st EXCEPT !.deferred = Append(@, entry)]
    ELSE [st EXCEPT !.slots = @ - 1,
                    !.admitted = @ \cup {[id |-> entry.id, len |-> entry.len]},
                    !.queue = Append(@, [id |-> entry.id, len |-> entry.len]),
                    !.machine = update(@, Append(st.queue,
                                                 [id |-> entry.id, len |-> entry.len]))]

\* collect(entry) of the pipeline build
collectEntry(st, entry) == IF isValidEntry(entry) THEN slot(st, entry) ELSE st

\* JSON lengths of the entries offered: short, the longest valid one (two of
\* them exceed a batch), 8 KiB
PipelineLens == {1, kb(8) - 1, kb(8)}

\* the application calls collect(entry) with an event
CollectPipeline ==
    /\ offered < MaxCollects
    /\ offered' = offered + 1
    /\ \E len \in PipelineLens :
          LET st == collectEntry([slots |-> slots, queue |-> queue,
                                  deferred |-> deferred, admitted |-> admitted,
                                  machine |-> machine],
                                 [id |-> offered + 1, len |-> len])
          IN /\ slots' = st.slots
             /\ queue' = st.queue
             /\ deferred' = st.deferred
             /\ admitted' = st.admitted
             /\ machine' = st.machine
    /\ UNCHANGED <<sending, inflight, sendCalls, call, fetch, createRequest,
                   proxied, pipeline, debounce, console, debounceSets, sendOnly>>

\* setInterval(() => debounce.set(), DEBOUNCE_MS); count is the history of
\* debounce.set() calls after the step
DebounceTicks(count) ==
    /\ debounce' = set(debounce)
    /\ debounceSets' = count
    /\ UNCHANGED <<slots, queue, sending, inflight, deferred, offered, admitted,
                   sendCalls, call, fetch, createRequest, proxied, pipeline,
                   machine, console, sendOnly>>

DebounceTick == DebounceTicks(debounceSets)

DebounceTickCounted == DebounceTicks(Min(debounceSets + 1, MaxTicks))

\* setInterval(() => slots = Math.min(20, slots + 2), SLOT_INTERVAL_MS)
SlotTick ==
    /\ slots' = Min(20, slots + 2)
    /\ UNCHANGED <<queue, sending, inflight, deferred, offered, admitted,
                   sendCalls, call, fetch, createRequest, proxied, pipeline,
                   debounce, machine, console, debounceSets, sendOnly>>

\* mutant: flush releases the gate instead of the debounce signal
FlushesSending(count, observed) ==
    /\ sending' = set(sending)
    /\ debounceSets' = count
    /\ call' = observed
    /\ UNCHANGED <<slots, queue, debounce, inflight, deferred, offered, admitted,
                   sendCalls, fetch, createRequest, proxied, pipeline,
                   machine, console, sendOnly>>

\* collect.flush = () => debounce.set()
Flushes(count, observed) ==
    /\ debounce' = set(debounce)
    /\ debounceSets' = count
    /\ call' = observed
    /\ UNCHANGED <<slots, queue, sending, inflight, deferred, offered, admitted,
                   sendCalls, fetch, createRequest, proxied, pipeline,
                   machine, console, sendOnly>>

Flush == Flushes(debounceSets, call)

\* as Flush, counted as a debounce.set() call
FlushCounted == Flushes(Min(debounceSets + 1, MaxTicks), call)

\* as Flush, keeping what the call found: the queue, the machine and the
\* number of batches extracted so far
FlushObserved ==
    Flushes(debounceSets,
            [fn |-> "flush", queue |-> queue, machine |-> machine,
             sendCalls |-> sendCalls])

\* the signal wait is blocked on lets it pass: wait goes on from there
WaitResumes ==
    /\ machine.action = "wait"
    /\ \/ /\ machine.at = "pipeline"
          /\ pipeline.signaled
          /\ machine' = awaitSending(queue, sending, debounce).machine
          /\ sending' = awaitSending(queue, sending, debounce).sending
          /\ debounce' = awaitSending(queue, sending, debounce).debounce
       \/ /\ machine.at = "sending"
          /\ sending.granted > 0
          /\ machine' = awaitDebounce(queue, [sending EXCEPT !.granted = @ - 1],
                                      debounce).machine
          /\ sending' = [sending EXCEPT !.granted = @ - 1]
          /\ debounce' = awaitDebounce(queue, [sending EXCEPT !.granted = @ - 1],
                                       debounce).debounce
       \/ /\ machine.at = "debounce"
          /\ debounce.granted > 0
          /\ machine' = afterWait(queue, sending, debounce).machine
          /\ debounce' = [debounce EXCEPT !.granted = @ - 1]
          /\ sending' = sending
    /\ UNCHANGED <<slots, queue, inflight, deferred, offered, admitted,
                   sendCalls, call, fetch, createRequest, proxied, pipeline,
                   console, debounceSets, sendOnly>>

\* the actions batch and send up to `await fetch(request)`: the batch is
\* spliced off the queue, joined, and passed to createRequest and fetch
BatchSends ==
    /\ machine = Batching
    /\ inflight' = Append(inflight, SubSeq(queue, 1, firstIndex(queue)))
    /\ queue' = SubSeq(queue, firstIndex(queue) + 1, Len(queue))
    /\ sendCalls' = Min(sendCalls + 1, MaxSends)
    /\ machine' = Fetching
    /\ UNCHANGED <<slots, sending, deferred, offered, admitted, call, fetch,
                   createRequest, proxied, pipeline, debounce, console,
                   debounceSets, sendOnly>>

\* as BatchSends, but createRequest or fetch throws: catch puts the batch
\* back and reports, finally releases the gate, and the machine is in wait
\* again
SendThrows ==
    /\ machine = Batching
    /\ console < MaxErrors
    /\ console' = console + 1
    /\ sendCalls' = Min(sendCalls + 1, MaxSends)
    /\ machine' = wait(queue, pipeline, set(sending), debounce).machine
    /\ sending' = wait(queue, pipeline, set(sending), debounce).sending
    /\ debounce' = wait(queue, pipeline, set(sending), debounce).debounce
    /\ UNCHANGED <<slots, queue, inflight, deferred, offered, admitted, call,
                   fetch, createRequest, proxied, pipeline, debounceSets, sendOnly>>

\* the promise of fetch fulfils: finally { sending.set() }, then wait
FetchResolves ==
    /\ machine = Fetching
    /\ inflight' = Tail(inflight)
    /\ machine' = wait(queue, pipeline, set(sending), debounce).machine
    /\ sending' = wait(queue, pipeline, set(sending), debounce).sending
    /\ debounce' = wait(queue, pipeline, set(sending), debounce).debounce
    /\ UNCHANGED <<slots, queue, deferred, offered, admitted, sendCalls, call,
                   fetch, createRequest, proxied, pipeline, console,
                   debounceSets, sendOnly>>

\* the promise of fetch rejects: catch { queue.unshift(...payload);
\* console.error(e) } finally { sending.set() }, then wait
FetchRejects ==
    /\ machine = Fetching
    /\ console < MaxErrors
    /\ inflight' = Tail(inflight)
    /\ queue' = Head(inflight) \o queue
    /\ console' = console + 1
    /\ machine' = wait(Head(inflight) \o queue, pipeline, set(sending), debounce).machine
    /\ sending' = wait(Head(inflight) \o queue, pipeline, set(sending), debounce).sending
    /\ debounce' = wait(Head(inflight) \o queue, pipeline, set(sending), debounce).debounce
    /\ UNCHANGED <<slots, deferred, offered, admitted, sendCalls, call,
                   fetch, createRequest, proxied, pipeline, debounceSets, sendOnly>>

\* The collector with a data pipeline, the setDataPipeline calls observed.
NextPipeline ==
    \/ SetDataPipelineObserved
    \/ CollectPipeline
    \/ DebounceTick
    \/ SlotTick
    \/ Flush
    \/ WaitResumes
    \/ BatchSends
    \/ SendThrows
    \/ FetchResolves
    \/ FetchRejects

SpecPipeline == InitPipeline /\ [][NextPipeline]_vars

\* The collector with a data pipeline, the flush calls observed and the ticks
\* of the debounce interval counted. The machine takes its steps and every
\* fetch settles; nothing is assumed about when the intervals fire or the
\* application calls.
NextFlush ==
    \/ SetDataPipeline
    \/ CollectPipeline
    \/ DebounceTickCounted
    \/ SlotTick
    \/ FlushObserved
    \/ WaitResumes
    \/ BatchSends
    \/ SendThrows
    \/ FetchResolves
    \/ FetchRejects

FairFlush ==
    /\ InitPipeline /\ [][NextFlush]_vars
    /\ WF_vars(WaitResumes) /\ WF_vars(BatchSends) /\ WF_vars(FetchResolves)

\* The collector with a data pipeline, the debounce.set() calls of the
\* interval and of flush counted. The machine takes its steps, every fetch
\* settles and the debounce interval keeps firing.
NextDebounce ==
    \/ SetDataPipeline
    \/ CollectPipeline
    \/ DebounceTickCounted
    \/ SlotTick
    \/ FlushCounted
    \/ WaitResumes
    \/ BatchSends
    \/ SendThrows
    \/ FetchResolves
    \/ FetchRejects

FairDebounce ==
    /\ InitPipeline /\ [][NextDebounce]_vars
    /\ WF_vars(WaitResumes) /\ WF_vars(BatchSends) /\ WF_vars(FetchResolves)
    /\ WF_vars(DebounceTickCounted)

\* ------------------------------------------------------------------ helpers

Range(s) == {s[i] : i \in 1..Len(s)}

IsPrefix(p, s) == Len(p) <= Len(s) /\ SubSeq(s, 1, Len(p)) = p

\* every batch that has been passed to send and is still observable: the
\* batches whose send has not settled and the batch that failed last
Payloads == Range(inflight) \cup {requeued}

\* createPayload invocations that have been scheduled and have not yet
\* extracted their batch
Pending == timers + sending.waiting + sending.granted

\* --------------------------------------------------------------------- C1

\* C1: at most one send is in flight at any time, and an attempt that has
\* passed the gate (and is about to extract its batch and call send) never
\* coexists with a send that has not settled.
C1_OneSendInFlight ==
    Len(inflight) + sending.granted <= 1

\* a second attempt is blocked in sending.ready() behind an outstanding send
C1_Witness ==
    /\ Len(inflight) = 1
    /\ sending.waiting = 1
    /\ queue # <<>>

\* --------------------------------------------------------------------- C2

\* C2: every payload passed to send holds at most 20 hits and its
\* newline-joined length is at most 16384 characters.
C2_BatchWithinLimits ==
    \A payload \in Payloads :
        /\ Len(payload) <= MAX_HITS_PER_BATCH
        /\ JoinLen(payload) <= MAX_BATCH_SIZE_KB

\* 21 short hits were queued: the batch in flight has exactly 20 of them and
\* the 21st is still queued
C2_Witness ==
    /\ Len(inflight) = 1
    /\ Len(inflight[1]) = MAX_HITS_PER_BATCH
    /\ \A hit \in Range(inflight[1]) : hit.len = 1
    /\ Len(queue) = 1
    /\ sendCalls = 1

\* --------------------------------------------------------------------- C3

\* C3: no hit longer than 8192 characters is ever in the queue or in a payload
\* passed to send, and a collect step queues the hits it admits exactly when
\* they are at most 8192 characters long (a hit of exactly 8192 is queued).
C3_OversizedHitNeverQueued ==
    /\ [](\A hit \in Range(queue) \cup UNION {Range(p) : p \in Payloads} :
              hit.len <= MAX_HIT_SIZE_KB)
    /\ [][\A hit \in admitted' \ admitted :
              (hit.len <= MAX_HIT_SIZE_KB) <=> (hit \in Range(queue'))]_vars

\* a hit of 8193 characters consumed a slot and was not queued
C3_Witness ==
    /\ \E hit \in admitted : hit.len = MAX_HIT_SIZE_KB + 1
    /\ queue = <<>>
    /\ sendCalls = 0

\* --------------------------------------------------------------------- C4

\* C4: a failed batch (send threw or rejected) is at the front of the queue in
\* its own order, ahead of the hits enqueued meanwhile, and the batch the next
\* attempt would extract starts with it.
C4_FailedBatchAtFront ==
    requeued # <<>> => /\ IsPrefix(requeued, queue)
                       /\ IsPrefix(requeued, Batch(queue))

\* a batch of 20 failed while a newer hit had been enqueued behind it
C4_Witness ==
    /\ Len(requeued) = MAX_HITS_PER_BATCH
    /\ Len(queue) > Len(requeued)
    /\ \A i \in 1..Len(requeued) : queue[i].id < queue[Len(queue)].id

\* --------------------------------------------------------------------- C5

\* the collector has nothing left to do on its own: no attempt is scheduled
\* or in progress, no send is outstanding and no collect retry is pending
Quiescent == Pending = 0 /\ inflight = <<>> /\ deferred = <<>>

\* C5: after a failed send the hits of the failed batch are sent again without
\* a further collect call: the collector never comes to rest with a failed
\* batch waiting in the queue.
C5_FailedBatchRetried ==
    Quiescent => requeued = <<>>

\* --------------------------------------------------------------------- C6

\* C6: the gate is never left held by nobody: whenever the signal is not set,
\* an attempt holds it (it passed ready() and has not extracted yet, or its
\* send has not settled); after a send settled either way the gate is free.
C6_GateReleased ==
    sending.signaled \/ sending.granted > 0 \/ inflight # <<>>

\* a send failed and the gate is free again
C6_Witness ==
    /\ requeued # <<>>
    /\ sending.signaled
    /\ inflight = <<>>

\* --------------------------------------------------------------------- C7

\* C7: 0 <= slots <= 20 in every reachable state.
C7_SlotsInRange ==
    slots \in 0..MAX_SLOTS

\* the budget is used up and an entry offered at slots = 0 is waiting
C7_Witness ==
    /\ slots = 0
    /\ deferred # <<>>

\* --------------------------------------------------------------------- C8

Ids(hits) == {hit.id : hit \in hits}

\* C8: after RateBurst (30) valid entries were offered in one turn at
\* slots = 20, the first 20 are admitted and the other 10 deferred as long as
\* no tick has fired; the first payload passed to send is the hits of the
\* first 20 entries in order; and an entry beyond the 20th is admitted only
\* after a tick.
C8_BurstRateLimited ==
    burstDone =>
        /\ 1..MAX_SLOTS \subseteq Ids(admitted)
        /\ ticks = 0 =>
              /\ Ids(admitted) = 1..MAX_SLOTS
              /\ Ids(Range(deferred)) = (MAX_SLOTS + 1)..RateBurst
              /\ Len(deferred) = RateBurst - MAX_SLOTS
        /\ \A payload \in Payloads \ {<<>>} :
              payload = [i \in 1..MAX_SLOTS |-> [id |-> i, len |-> 1]]
        /\ Ids(admitted) \cup Ids(Range(deferred)) = 1..RateBurst

\* the first payload of 20 is in flight and, after a tick, entries beyond the
\* 20th have been admitted while others are still deferred
C8_Witness ==
    /\ burstDone
    /\ Len(inflight) = 1
    /\ ticks > 0
    /\ Cardinality(admitted) > MAX_SLOTS
    /\ deferred # <<>>

\* --------------------------------------------------------------------- C9

\* ids of the valid entries whose collect retry is pending
ValidDeferred == {e.id : e \in {d \in Range(deferred) : convertToHit(d) # undefined}}

\* C9: valid entries that collect deferred at slots = 0 are not dropped: an
\* entry leaves the pending retries only by being admitted (or once the
\* collector is disposed), and the pending retries eventually drain.
C9_DeferredEventuallyAdmitted ==
    /\ [][\A i \in ValidDeferred \ ValidDeferred' :
              i \in Ids(admitted') \/ disposed]_vars
    /\ (ValidDeferred # {}) ~> (ValidDeferred = {} \/ disposed)

\* the whole array was offered at slots = 20, so its last entries were
\* deferred, and all of its entries have been admitted since
C9_Witness ==
    /\ burstDone
    /\ singles = 0
    /\ ~disposed
    /\ deferred = <<>>
    /\ Ids(admitted) = 1..BurstSize

\* -------------------------------------------------------------------- C10

\* the whole queue fits one batch
Fits(q) == Len(q) <= MAX_HITS_PER_BATCH /\ JoinLen(q) <= MAX_BATCH_SIZE_KB

\* C10: the hits enqueued before an attempt extracts its batch share that one
\* attempt: while no send has been made, queued hits have exactly one attempt
\* pending, and an attempt whose queue fits one batch passes the whole queue
\* to send in enqueue order and leaves no other attempt pending.
C10_EnqueuesCoalesced ==
    /\ []((sendCalls = 0 /\ queue # <<>>) => Pending = 1)
    /\ [][((CreatePayloadSend \/ CreatePayloadThrow) /\ Fits(queue)) =>
              /\ Pending' = 0
              /\ queue # <<>>
              /\ \/ inflight' = Append(inflight, queue) /\ queue' = <<>>
                 \/ requeued' = queue /\ queue' = queue]_vars

\* the 20 hits enqueued in the array turn went out in a single send call
C10_Witness ==
    /\ burstDone
    /\ singles = 0
    /\ sendCalls = 1
    /\ Len(inflight) = 1
    /\ Ids(Range(inflight[1])) = 1..MAX_SLOTS
    /\ queue = <<>>
    /\ Pending = 0

\* -------------------------------------------------------------------- C11

\* the hits of a set in collect order (their ids are 1..n)
RECURSIVE InCollectOrder(_, _)
InCollectOrder(hits, i) ==
    IF \A hit \in hits : hit.id < i THEN <<>>
    ELSE (IF \E hit \in hits : hit.id = i
          THEN <<CHOOSE hit \in hits : hit.id = i>> ELSE <<>>)
         \o InCollectOrder(hits, i + 1)

\* C11: with no transport failure and no rate-limit deferral, once the
\* collector has nothing left to do the payloads passed to send, concatenated
\* in call order, are the hits of the collected entries in collect order.
C11_RoundTrip ==
    Quiescent => delivered = InCollectOrder(admitted, 1)

\* -------------------------------------------------------------------- C17

\* C17: with sends that succeed, hits left in the queue by a batch extraction
\* are eventually extracted by a later attempt, without a further collect:
\* a non-empty queue is eventually emptied.
C17_LeftoverEventuallySent ==
    (queue # <<>>) ~> (queue = <<>>)

\* -------------------------------------------------------------------- C12

\* C12: once the collector is disposed a call of collect (by the application
\* or by a retry timer, which only uses up its timer) changes neither slots
\* nor the queue, defers nothing and hands nothing to the SDK, and no step
\* sets a timer for a send attempt any more.
C12_CollectAfterDisposeNoop ==
    /\ [][(disposed /\ (Collect \/ CollectBurst)) =>
              UNCHANGED <<slots, queue, scheduled, timers, deferred, admitted,
                          sending, inflight, sendCalls>>]_vars
    /\ [][(disposed /\ RetryCollect) =>
              /\ deferred' = Tail(deferred)
              /\ UNCHANGED <<slots, queue, scheduled, timers, admitted,
                             sending, inflight, sendCalls>>]_vars
    /\ [][disposed => timers' <= timers]_vars

\* the array of events was offered after dispose and left no trace
C12_Witness ==
    /\ disposed
    /\ burstDone
    /\ admitted = {}
    /\ deferred = <<>>
    /\ queue = <<>>
    /\ slots = MAX_SLOTS
    /\ sendCalls = 0

\* -------------------------------------------------------------------- C13

\* C13: hits in the queue when dispose is called are never sent. While no
\* send call has been made, the queue of a disposed collector is what it was
\* when dispose was called (collect is a no-op since), so the first send call
\* of a disposed collector carries no hit.
C13_QueuedHitsDroppedAtDispose ==
    [][(disposed /\ sendCalls = 0 /\ (CreatePayloadSend \/ CreatePayloadThrow)) =>
          Batch(queue) = <<>>]_vars

\* -------------------------------------------------------------------- C14

\* C14: dispose can always be called, and calling it on a disposed collector
\* changes nothing: the state after two calls is the state after one, the
\* replenishment interval stays cleared.
C14_DisposeIdempotent ==
    /\ ENABLED Dispose
    /\ disposed => /\ ~ENABLED (Dispose /\ vars' # vars)
                   /\ ~ENABLED Tick

\* a disposed collector that still holds hits and has a send outstanding
C14_Witness ==
    /\ disposed
    /\ queue # <<>>
    /\ inflight # <<>>
    /\ slots < MAX_SLOTS

\* -------------------------------------------------------------------- C15

\* C15: googleAnalytics called with a send that is not a function throws a
\* fatal error and has created nothing (no queue, gate, interval, hook or
\* collector), so that nothing can ever run; called with a function it does
\* not throw.
C15_FailsFast ==
    call.fn = "googleAnalytics" =>
        IF call.arg.t = "function"
        THEN ~call.result.threw /\ "collect" \in call.result.created
        ELSE /\ call.result.threw
             /\ call.result.created = {}
             /\ call.result.error.severity = FATAL
             /\ ~ENABLED NextSetup

\* googleAnalytics(null) threw
C15_Witness ==
    /\ call.fn = "googleAnalytics"
    /\ call.arg = null
    /\ call.result.threw

\* -------------------------------------------------------------------- C16

\* the entry is an object whose type is event, timer or error
IsTracked(entry) ==
    /\ entry.t = "object"
    /\ "type" \in DOMAIN entry.v
    /\ entry.v.type \in {str("event"), str("timer"), str("error")}

\* the positions of the valid entries of a turn
TrackedAt(entries) == {i \in 1..Len(entries) : IsTracked(entries[i])}

RECURSIVE Flatten(_)
Flatten(batches) ==
    IF batches = <<>> THEN <<>> ELSE Head(batches) \o Flatten(Tail(batches))

\* C16: an entry that is missing, null, not an object or of an unknown type
\* produces no hit, takes no slot, is neither queued nor deferred, and the
\* valid entries of the same turn are queued and sent in the order they were
\* offered: all of them have been sent when the collector comes to rest.
C16_InvalidEntryDropped ==
    call.fn = "collect" =>
        /\ Ids(admitted) = TrackedAt(call.arg)
        /\ slots = MAX_SLOTS - Cardinality(TrackedAt(call.arg))
        /\ deferred = <<>>
        /\ delivered \o Flatten(inflight) \o queue = InCollectOrder(admitted, 1)
        /\ Quiescent => delivered = InCollectOrder(admitted, 1)

\* a valid entry, null and another valid entry were offered; the two hits
\* were sent in that order
C16_Witness ==
    /\ call.fn = "collect"
    /\ call.arg[1] = object([type |-> str("event")])
    /\ call.arg[2] = null
    /\ call.arg[3] = object([type |-> str("timer")])
    /\ Quiescent
    /\ delivered = <<[id |-> 1, len |-> 1], [id |-> 3, len |-> 1]>>

\* -------------------------------------------------------------------- C18

\* C18: the first argument of every send call is the extracted batch joined
\* by newlines: its pieces are the hits of the batch in extraction order with
\* one newline between consecutive hits, none before the first or after the
\* last, and its length is the length the size cap counts; the second
\* argument is the operation descriptor (path batch, method POST, protocol
\* https, content-type application/x-www-form-urlencoded), the same on every
\* call.
C18_PayloadJoinedByNewline ==
    /\ [](call.fn = "send" =>
             /\ call.arg[2].path = "batch"
             /\ call.arg[2].method = "POST"
             /\ call.arg[2].protocol = "https"
             /\ call.arg[2].headers["content-type"] = "application/x-www-form-urlencoded")
    /\ []((call.fn = "send" /\ inflight # <<>>) =>
             /\ Len(call.arg[1]) = (IF inflight[1] = <<>> THEN 0
                                    ELSE 2 * Len(inflight[1]) - 1)
             /\ \A i \in 1..Len(inflight[1]) : call.arg[1][2 * i - 1] = inflight[1][i]
             /\ \A i \in 1..(Len(inflight[1]) - 1) : call.arg[1][2 * i] = newline
             /\ SumLen(call.arg[1]) = JoinLen(inflight[1]))
    /\ [][(call.fn = "send" /\ call'.fn = "send") => call'.arg[2] = call.arg[2]]_vars

\* three hits of 4096 characters were sent as five pieces, 12290 characters
C18_Witness ==
    /\ call.fn = "send"
    /\ Len(inflight) = 1
    /\ Len(inflight[1]) = 3
    /\ Len(call.arg[1]) = 5
    /\ SumLen(call.arg[1]) = 3 * 4096 + 2
    /\ sendCalls = 2

\* -------------------------------------------------------------------- C19

\* the value of an own property of an object, undefined when there is none
Property(value, key) ==
    IF value.t = "object" /\ key \in DOMAIN value.v THEN value.v[key] ELSE undefined

\* C19: an event entry with a label and with data.action and data.category
\* (and no data.label) converts to a hit of type event whose eventAction is
\* data.action, eventCategory data.category, eventLabel the entry's label and
\* eventValue data.value or, without one, the entry's count.
C19_EventHit ==
    (/\ call.fn = "convertToHit"
     /\ Property(call.arg, "type") = str("event")
     /\ Property(call.arg, "label") # undefined
     /\ Property(Property(call.arg, "data"), "action") # undefined
     /\ Property(Property(call.arg, "data"), "category") # undefined
     /\ Property(Property(call.arg, "data"), "label") = undefined)
    => /\ call.result.hitType = str("event")
       /\ call.result.eventAction = Property(Property(call.arg, "data"), "action")
       /\ call.result.eventCategory = Property(Property(call.arg, "data"), "category")
       /\ call.result.eventValue =
              (IF Property(Property(call.arg, "data"), "value") # undefined
               THEN Property(Property(call.arg, "data"), "value")
               ELSE Property(call.arg, "count"))
       /\ call.result.eventLabel = Property(call.arg, "label")

\* -------------------------------------------------------------------- C20

\* C20: a timer entry converts to a hit of type timing whose timingValue is
\* the entry's duration, timingCategory data.category, timingLabel
\* data.variable and timingVar the entry's label.
C20_TimerHit ==
    (call.fn = "convertToHit" /\ Property(call.arg, "type") = str("timer"))
    => /\ call.result.hitType = str("timing")
       /\ call.result.timingValue = Property(call.arg, "duration")
       /\ call.result.timingCategory = Property(Property(call.arg, "data"), "category")
       /\ call.result.timingLabel = Property(Property(call.arg, "data"), "variable")
       /\ call.result.timingVar = Property(call.arg, "label")

\* {type: 'timer', label: 'L', duration: 200, data: {category: 'C',
\* variable: 'V'}} was converted
C20_Witness ==
    /\ call.fn = "convertToHit"
    /\ call.arg = object([type |-> str("timer"), label |-> str("L"),
                          duration |-> num(200),
                          data |-> object([category |-> str("C"),
                                           variable |-> str("V")])])
    /\ call.result = [hitType |-> str("timing"), timingValue |-> num(200),
                      timingCategory |-> str("C"), timingLabel |-> str("V"),
                      timingVar |-> str("L")]

\* -------------------------------------------------------------------- C21

\* the fields the conversion sets for each kind of hit
HitFields ==
    {"hitType", "eventAction", "eventLabel", "eventCategory", "eventValue",
     "timingValue", "timingCategory", "timingLabel", "timingVar",
     "exDescription", "exFatal"}

\* the data properties named dimension followed by digits only
DimensionKeys(data) ==
    IF data.t = "object" THEN DOMAIN data.v \cap {"dimension1", "dimension12"} ELSE {}

\* C21 as stated: for an entry that converts to a hit, every data key of the
\* form dimension<digits> is in the hit with the very value it has in data
\* (null for a null or undefined value), and the hit has no other data key.
C21_DimensionsVerbatim ==
    (call.fn = "convertToHit" /\ call.result # undefined) =>
        LET data == Property(call.arg, "data") IN
        /\ DOMAIN call.result \ HitFields = DimensionKeys(data)
        /\ \A key \in DimensionKeys(data) :
               call.result[key] = (IF data.v[key] \in {null, undefined} THEN null
                                   ELSE data.v[key])

\* C21 as amended: the value of a dimension key is in the hit as a string,
\* String(value): a string as it is, the number 7 as "7", true as "true";
\* null for a null or undefined value; the hit has no other data key.
C21_DimensionsAsStrings ==
    (call.fn = "convertToHit" /\ call.result # undefined) =>
        LET data == Property(call.arg, "data") IN
        /\ DOMAIN call.result \ HitFields = DimensionKeys(data)
        /\ \A key \in DimensionKeys(data) :
               /\ call.result[key].t \in {"null", "string"}
               /\ call.result[key] =
                      (CASE data.v[key] \in {null, undefined} -> null
                         [] data.v[key] = num(7) -> str("7")
                         [] data.v[key] = bool(TRUE) -> str("true")
                         [] OTHER -> data.v[key])

\* an event whose data has the dimension 12 as the number 7, the dimension 1,
\* near-dimension names and a plain key: the hit has the two dimensions only,
\* the number as a string
C21_Witness ==
    /\ call.fn = "convertToHit"
    /\ call.arg = object([type |-> str("event"),
                          data |-> object([dimension12 |-> num(7),
                                           dimension1 |-> str("y"),
                                           dimension |-> str("d"),
                                           dimension1x |-> str("z"),
                                           xdimension1 |-> str("w"),
                                           key |-> str("value")])])
    /\ call.result.dimension12 = str("7")
    /\ call.result.dimension1 = str("y")
    /\ DOMAIN call.result =
           {"hitType", "eventAction", "eventLabel", "eventCategory", "eventValue",
            "dimension1", "dimension12"}

\* -------------------------------------------------------------------- C25

\* C25: an attempt that extracts its batch removes exactly the first
\* n = min(20, indexBySize(queue, 16384)) hits from the queue and passes them
\* to send; the hits behind them stay in the queue, unchanged and in order
\* (when send throws at once, the batch is back in front of them in the same
\* step).
C25_BatchIsQueuePrefix ==
    /\ [][CreatePayloadSend =>
              LET n == Min(20, indexBySize(queue, 16384)) IN
              /\ Len(inflight') = Len(inflight) + 1
              /\ inflight'[Len(inflight')] = [i \in 1..n |-> queue[i]]
              /\ queue' = [i \in 1..(Len(queue) - n) |-> queue[n + i]]]_vars
    /\ [][CreatePayloadThrow =>
              LET n == Min(20, indexBySize(queue, 16384)) IN
              /\ requeued' = [i \in 1..n |-> queue[i]]
              /\ queue' = queue]_vars

\* of 20 queued hits of 4096 characters the attempt took the first three and
\* left the other 17 as they were
C25_Witness ==
    /\ Len(inflight) = 1
    /\ inflight[1] = [i \in 1..3 |-> [id |-> i, len |-> 4096]]
    /\ queue = [i \in 1..17 |-> [id |-> 3 + i, len |-> 4096]]
    /\ sendCalls = 1

\* -------------------------------------------------------------------- C26

\* length of the first n items joined with one separator character between
\* consecutive items
JoinedLength(array, n) == SumLen(join(SubSeq(array, 1, n), newline))

\* C26: indexBySize(array, max) is the largest n such that the first n items,
\* joined with one separator between consecutive items, are at most max
\* characters long: 0 when the first item alone is longer than max, the
\* length of the array when all of it fits; the array is left as it was.
C26_IndexBySizeLargestPrefix ==
    call.fn = "indexBySize" =>
        LET array == call.arg[1]
            max == call.arg[2]
            n == call.result
        IN /\ n \in 0..Len(array)
           /\ JoinedLength(array, n) <= max
           /\ \A m \in (n + 1)..Len(array) : JoinedLength(array, m) > max
           /\ (array # <<>> /\ array[1].len > max) => n = 0
           /\ JoinedLength(array, Len(array)) <= max => n = Len(array)
           /\ call.array = array

\* of five items of 4096 characters the first three fit 16384 with their two
\* separators, the first four do not
C26_Witness ==
    /\ call.fn = "indexBySize"
    /\ Len(call.arg[1]) = 5
    /\ \A i \in 1..5 : call.arg[1][i].len = 4096
    /\ call.arg[2] = MAX_BATCH_SIZE_KB
    /\ call.result = 3

\* -------------------------------------------------------------------- C27

\* the send that was in flight when dispose was called has not settled yet
InFlightAtDispose ==
    /\ call.fn = "dispose"
    /\ call.inflight # <<>>
    /\ inflight = call.inflight

\* the step releases the gate: the signal is set, or the next attempt that
\* waited in ready() has been let through
Released ==
    \/ sending'.signaled
    \/ sending'.granted = sending.granted + 1 /\ sending'.waiting = sending.waiting - 1

\* C27: dispose does not touch a send in flight (nor the queue or the gate),
\* and the continuation of that send still runs when it settles: a failure
\* puts its batch back at the front of the queue, a success leaves the queue
\* alone, and either way the gate is released.
C27_InFlightContinuationRuns ==
    /\ [][DisposeObserved =>
              UNCHANGED <<inflight, queue, sending>>]_vars
    /\ [](InFlightAtDispose => ENABLED SendResolve /\ ENABLED SendReject)
    /\ [][(InFlightAtDispose /\ SendReject) =>
              /\ queue' = call.inflight[1] \o queue
              /\ inflight' = <<>>
              /\ Released]_vars
    /\ [][(InFlightAtDispose /\ SendResolve) =>
              /\ queue' = queue
              /\ inflight' = <<>>
              /\ Released]_vars

\* dispose was called while a batch of 20 was in flight; the send failed
\* afterwards, the batch is back in the queue and the gate is free
C27_Witness ==
    /\ disposed
    /\ call.fn = "dispose"
    /\ Len(call.inflight) = 1
    /\ Len(call.inflight[1]) = MAX_HITS_PER_BATCH
    /\ inflight = <<>>
    /\ requeued = call.inflight[1]
    /\ IsPrefix(call.inflight[1], queue)
    /\ sending.signaled
    /\ sendCalls = 1

\* -------------------------------------------------------------------- C28

\* C28: once dispose has returned, no timer of the collector fires any more:
\* no replenishment tick, no deferred collect retry and no send attempt that
\* was scheduled and had not started.
C28_TimersCancelledAtDispose ==
    [][disposed => ~(Tick \/ RetryCollect \/ CreatePayloadStart)]_vars

\* -------------------------------------------------------------------- C22

\* a send fails: the promise of the transport rejects, or the transport throws
TransportFails == SendReject \/ CreatePayloadThrow \/ FetchRejects \/ SendThrows

\* C22: every failure of the transport is reported to the error channel (one
\* console.error call for each failed send), and no collect call makes a
\* transport call of its own, so no failure reaches the caller of collect.
C22_FailureReported ==
    /\ [][TransportFails => console' = console + 1]_vars
    /\ [][(Collect \/ CollectBurst \/ RetryCollect \/ CollectPipeline) =>
              UNCHANGED <<inflight, sendCalls, console>>]_vars

\* -------------------------------------------------------------------- C24

\* a property the data pipeline needs is missing from the argument
Incomplete(data) ==
    \/ Property(data, "fetch").t # "function"
    \/ Property(data, "createRequest").t # "function"
    \/ Property(Property(data, "proxy"), "use").t # "function"

\* C24: setDataPipeline called with fetch, createRequest or proxy.use missing
\* throws a fatal error and leaves the closure as it found it: fetch and
\* createRequest keep their values, proxy.use is not called, the pipeline
\* signal is not set, and a collector that was not configured before has the
\* machine blocked in wait, with no batch extracted and no transport call.
\* Called with all three it does not throw, stores both functions, calls
\* proxy.use once and sets the signal.
C24_SetDataPipelineThrows ==
    call.fn = "setDataPipeline" =>
        IF Incomplete(call.arg)
        THEN /\ call.result.threw
             /\ fetch = call.before.fetch
             /\ createRequest = call.before.createRequest
             /\ proxied = call.before.proxied
             /\ pipeline = call.before.pipeline
             /\ call.result.error.severity = FATAL
             /\ ~call.before.pipeline.signaled =>
                    /\ machine = Waiting("pipeline")
                    /\ ~ENABLED WaitResumes
                    /\ sendCalls = 0
                    /\ inflight = <<>>
        ELSE /\ ~call.result.threw
             /\ fetch = function
             /\ createRequest = function
             /\ proxied = call.before.proxied + 1
             /\ pipeline.signaled

\* setDataPipeline({fetch, createRequest}) threw on a collector that holds two
\* hits: nothing is configured and nothing was sent
C24_Witness ==
    /\ call.fn = "setDataPipeline"
    /\ call.arg = object([fetch |-> function, createRequest |-> function])
    /\ call.result.threw
    /\ fetch = undefined
    /\ createRequest = undefined
    /\ proxied = 0
    /\ ~pipeline.signaled
    /\ Len(queue) = 2
    /\ sendCalls = 0

\* -------------------------------------------------------------------- C23

\* flush was called on a configured collector, hits are queued and no batch
\* has been extracted since the call
FlushPending ==
    /\ call.fn = "flush"
    /\ call.sendCalls < MaxSends
    /\ sendCalls = call.sendCalls
    /\ pipeline.signaled
    /\ queue # <<>>

\* C23: after flush() the queued hits are sent without any help of the
\* debounce interval: with hits queued on a configured collector, a batch is
\* extracted after the call even if the interval never fires; a batch is
\* extracted only while no send is in flight, and it starts with the queue's
\* first hit.
C23_FlushForcesSend ==
    /\ FlushPending ~> (call.fn = "flush" /\ sendCalls > call.sendCalls)
    /\ [][(BatchSends \/ SendThrows) => inflight = <<>>]_vars
    /\ [][BatchSends => inflight' = <<SubSeq(queue, 1, Len(inflight'[1]))>>
                        /\ inflight'[1] # <<>>]_vars

\* the first batch was sent; a hit was collected while wait was blocked on the
\* debounce signal; flush found it queued, and it is in flight before the
\* debounce interval has fired once
C23_Witness ==
    /\ call.fn = "flush"
    /\ call.machine = Waiting("debounce")
    /\ call.sendCalls = 1
    /\ Len(call.queue) = 1
    /\ debounceSets = 0
    /\ sendCalls = 2
    /\ inflight = <<call.queue>>
    /\ console = 0

\* -------------------------------------------------------------------- C29

Configured == fetch = function /\ createRequest = function /\ proxied > 0

\* C30: the pipeline signal is set exactly when setDataPipeline has succeeded;
\* until then the machine is blocked in wait, no batch is extracted, no
\* transport call is made and every hit collected is in the queue, in collect
\* order; once the signal is set the queued hits are passed to the transport:
\* the first batch is extracted, it starts with the first hit collected, and
\* the hits it leaves behind stay queued in order.
C30_PausedUntilConfigured ==
    /\ [](pipeline.signaled <=> Configured)
    /\ [](~pipeline.signaled =>
             /\ machine = Waiting("pipeline")
             /\ sendCalls = 0
             /\ inflight = <<>>
             /\ console = 0
             /\ queue = InCollectOrder(admitted, 1))
    /\ [][~pipeline.signaled' => ~(WaitResumes \/ BatchSends \/ SendThrows)]_vars
    /\ (pipeline.signaled /\ queue # <<>> /\ sendCalls = 0) ~> (sendCalls > 0)
    /\ [][(sendCalls = 0 /\ BatchSends) =>
              /\ Len(inflight') = 1
              /\ inflight'[1] # <<>>
              /\ inflight'[1] \o queue' = InCollectOrder(admitted, 1)]_vars

\* every entry offered has been collected and is queued on a collector that
\* has not been configured; a flush did not move them
C30_Witness ==
    /\ ~pipeline.signaled
    /\ call.fn = "flush"
    /\ Len(queue) = MaxCollects
    /\ Cardinality(admitted) = MaxCollects
    /\ machine = Waiting("pipeline")

\* -------------------------------------------------------------------- C31

\* C31: send is never called with an empty payload: whenever an attempt is
\* scheduled or waiting for the gate the queue holds a hit, the head of the
\* queue fits a batch, every attempt that extracts a batch finds a non-empty
\* queue and extracts at least its head, and no batch handed to send is empty.
C31_NoEmptyPayload ==
    /\ [](Pending > 0 => queue # <<>>)
    /\ [](queue # <<>> => BatchSize(queue) >= 1)
    /\ [](\A payload \in Range(inflight) : payload # <<>>)
    /\ [][(CreatePayloadSend \/ CreatePayloadThrow) =>
              /\ queue # <<>>
              /\ Batch(queue) # <<>>
              /\ Batch(queue)[1] = queue[1]]_vars

\* a second attempt has extracted a batch of several hits, one of them of
\* exactly 8192 characters
C31_Witness ==
    /\ sendCalls = 2
    /\ Len(inflight) = 1
    /\ Len(inflight[1]) > 1
    /\ \E hit \in Range(inflight[1]) : hit.len = MAX_HIT_SIZE_KB
    /\ requeued = <<>>

\* -------------------------------------------------------------------- C32

\* the hits pushed onto the queue: those collect handed to the SDK whose
\* payload the sendHitTask hook accepted
Pushed == {hit \in admitted : hit.len <= MAX_HIT_SIZE_KB}

\* where the pushed hits are: delivered by a completed send, in the batch of a
\* send that has not settled, or in the queue
Whereabouts == delivered \o Flatten(inflight) \o queue

\* C32: every hit pushed onto the queue is in exactly one of the hits of the
\* completed sends, the batch in flight and the queue, exactly once; nothing
\* else is there, whatever the interleaving of collects, attempts, failures
\* and dispose.
C32_HitsConserved ==
    /\ Range(Whereabouts) = Pushed
    /\ Len(Whereabouts) = Cardinality(Pushed)

\* on a disposed collector one batch was delivered and a later one failed: it
\* is back in the queue ahead of a newer hit; an oversized hit was admitted
\* and never pushed
C32_Witness ==
    /\ disposed
    /\ delivered # <<>>
    /\ requeued # <<>>
    /\ Len(queue) > Len(requeued)
    /\ inflight = <<>>
    /\ \E hit \in admitted : hit.len > MAX_HIT_SIZE_KB

\* -------------------------------------------------------------------- C33

\* C33: the hits delivered, followed by the batch in flight, followed by the
\* queue, are in the order in which they were pushed onto the queue: a step
\* changes that sequence only by appending the hits it pushes, in the order
\* of their collect calls. Hence extraction, failure and re-queueing reorder
\* nothing, and the completed sends deliver the hits in arrival order.
C33_ArrivalOrderKept ==
    [][Whereabouts' = Whereabouts \o InCollectOrder(Pushed' \ Pushed, 1)]_vars

\* a batch was delivered; the next batch, whose hits did not arrive in the
\* order their entries were first offered (a retried entry arrived after a
\* later one), failed and is back in the queue as it was
C33_Witness ==
    /\ delivered # <<>>
    /\ requeued # <<>>
    /\ IsPrefix(requeued, queue)
    /\ \E i \in 1..(Len(requeued) - 1) : requeued[i].id > requeued[i + 1].id

\* -------------------------------------------------------------------- C34

\* C34: at most one attempt is pending: scheduled is true exactly when one
\* createPayload invocation has its timer pending, waits for the gate or has
\* been passed the gate and not resumed yet, and false exactly when there is
\* none; so at most one invocation waits for the gate behind the send in
\* flight.
C34_OneAttemptPending ==
    /\ scheduled => Pending = 1
    /\ ~scheduled => Pending = 0
    /\ sending.waiting <= 1
    /\ sending.waiting = 1 => Len(inflight) + sending.granted = 1

\* an attempt waits for the gate behind the send in flight; two more hits
\* were enqueued meanwhile and set no timer
C34_Witness ==
    /\ Len(inflight) = 1
    /\ sending.waiting = 1
    /\ scheduled
    /\ timers = 0
    /\ Len(queue) >= 2

\* -------------------------------------------------------------------- C35

\* C35: queued hits always have an attempt that will pick them up: whenever
\* the queue is not empty and no send is in flight, an attempt is scheduled.
C35_QueuedHitsScheduled ==
    (queue # <<>> /\ inflight = <<>>) => scheduled

\* -------------------------------------------------------------------- C36

\* C36: a collect call, by the application or by a retry timer, takes exactly
\* one slot if and only if the collector is not disposed, a slot is left and
\* the entry is an object of type event, timer or error; otherwise slots is
\* unchanged. An entry of another shape takes none, and a hit that the
\* sendHitTask hook rejects as oversized has taken one without being queued.
C36_SlotPerConvertedEntry ==
    /\ [][CollectObserved =>
              /\ (~disposed /\ slots >= 1 /\ IsTracked(call'.arg)) => slots' = slots - 1
              /\ ~(~disposed /\ slots >= 1 /\ IsTracked(call'.arg)) => slots' = slots
              /\ (slots' = slots - 1 /\ call'.arg.len > MAX_HIT_SIZE_KB) => queue' = queue]_vars
    /\ [][RetryCollect =>
              /\ (~disposed /\ slots >= 1 /\ IsTracked(Head(deferred))) => slots' = slots - 1
              /\ ~(~disposed /\ slots >= 1 /\ IsTracked(Head(deferred))) => slots' = slots
              /\ (slots' = slots - 1 /\ Head(deferred).len > MAX_HIT_SIZE_KB) =>
                     queue' = queue]_vars

\* an oversized entry was offered after the array had used up the slots and
\* was deferred; after a tick its retry took the last slot and queued nothing
C36_Witness ==
    /\ call.fn = "collect"
    /\ IsTracked(call.arg)
    /\ call.arg.len > MAX_HIT_SIZE_KB
    /\ call.arg.id = BurstSize + 1
    /\ call.arg.id \in Ids(admitted)
    /\ call.arg.id \notin Ids(Range(queue))
    /\ deferred = <<>>
    /\ slots = 0

\* -------------------------------------------------------------------- C37

\* C37: the hits admitted by collect (slot taken, hit handed to the SDK)
\* number at most 20 + 2 x (ticks fired so far), at every point; the slots
\* left count against the same budget.
C37_AdmittedWithinBudget ==
    /\ Cardinality(admitted) <= MAX_SLOTS + 2 * ticks
    /\ Cardinality(admitted) + slots <= MAX_SLOTS + 2 * ticks

\* every tick has fired and the budget is used up to the last slot, with
\* entries still waiting for one
C37_Witness ==
    /\ ticks = MaxTicks
    /\ Cardinality(admitted) = MAX_SLOTS + 2 * MaxTicks
    /\ slots = 0
    /\ deferred # <<>>

\* -------------------------------------------------------------------- C38

\* C38: an entry that was deferred at slots = 0 and whose retry fires after
\* dispose is discarded. The entries waiting at the first dispose call are
\* never handed to the SDK and never reach the queue or a batch; their
\* retries take no slot, even when one is free, and defer nothing: the
\* pending retries of a disposed collector only run out.
C38_DeferredDiscardedAfterDispose ==
    /\ [](call.fn = "dispose" =>
             /\ \A e \in Range(call.deferred) :
                   /\ e.id \notin Ids(admitted)
                   /\ e.id \notin Ids(Range(queue) \cup Range(Flatten(inflight)))
             /\ \E n \in 0..Len(call.deferred) :
                   deferred = SubSeq(call.deferred, n + 1, Len(call.deferred)))
    /\ [][(disposed /\ RetryCollect) => UNCHANGED <<slots, admitted, queue>>]_vars
    /\ [][disposed => Len(deferred') <= Len(deferred)]_vars

\* the entry the array turn left deferred was still waiting at dispose, with
\* two slots free after a tick; its retry has run and left no trace
C38_Witness ==
    /\ call.fn = "dispose"
    /\ Len(call.deferred) = 1
    /\ deferred = <<>>
    /\ slots = 2
    /\ Cardinality(admitted) = MAX_SLOTS
    /\ ticks > 0

====
